---- MODULE Spec2Model ----
(***************************************************************************)
(* ResearchAssistant/app.py: a Flask handler, /search, that hands the      *)
(* user's question to a LangChain ReAct agent (initialize_agent over five  *)
(* tools and an Ollama model) and returns the agent's answer as JSON.      *)
(*                                                                         *)
(* Texts are sequences of strings: a literal of the source is one segment, *)
(* a tool input is a sequence of one-character strings, so that strip,     *)
(* replace and the character whitelist are computed, not assumed.          *)
(*                                                                         *)
(* agent.run is the AgentExecutor built at app.py:201-213.  What that call *)
(* configures is modelled as the library applies it:                       *)
(*   - handle_parsing_errors=True is a keyword of initialize_agent that    *)
(*     reaches the AgentExecutor: an unparseable completion becomes an     *)
(*     observation and one iteration;                                      *)
(*   - "max_iterations": 3 and "early_stopping_method": "generate" are     *)
(*     given inside agent_kwargs, which initialize_agent hands to          *)
(*     ZeroShotAgent.from_llm_and_tools; that constructor has no such      *)
(*     fields and drops them, so the AgentExecutor runs with its own       *)
(*     defaults, max_iterations = 15 and early_stopping_method = "force".  *)
(***************************************************************************)
EXTENDS Integers, Sequences, FiniteSets, TLC

VARIABLES runs, fed

vars == <<runs, fed>>

(***************************************************************************)
(* Bounds of the model.                                                    *)
(***************************************************************************)
\* inputs (request, completions, dependency outcomes) one request consumes in ConcSpec
MaxFed == 3

(***************************************************************************)
(* Text helpers.                                                           *)
(***************************************************************************)
RECURSIVE lstrip(_, _)
\* str.lstrip(chars)
lstrip(s, chars) ==
    IF s # <<>> /\ Head(s) \in chars THEN lstrip(Tail(s), chars) ELSE s

RECURSIVE rstrip(_, _)
\* str.rstrip(chars)
rstrip(s, chars) ==
    IF s # <<>> /\ s[Len(s)] \in chars THEN rstrip(SubSeq(s, 1, Len(s) - 1), chars) ELSE s

\* str.strip(chars)
strip(s, chars) == rstrip(lstrip(s, chars), chars)

\* str.replace(a, b) for one-character a and b
replace(s, a, b) == [i \in 1..Len(s) |-> IF s[i] = a THEN b ELSE s[i]]

\* text.startswith(prefix), for a prefix that is one literal of the source
StartsWith(text, prefix) == Len(text) >= 1 /\ text[1] = prefix

Whitespace == {" ", "\n", "\t"}

(***************************************************************************)
(* A call returns a string (Ret) or raises (Exc).                          *)
(***************************************************************************)
Ret(text) == [kind |-> "str", text |-> text]

Exc(msg) == [kind |-> "exc", text |-> <<msg>>]

\* try: body / except Exception as e: handler(str(e))
TryExcept(body, prefix) ==
    IF body.kind = "exc" THEN Ret(<<prefix>> \o body.text) ELSE body

(***************************************************************************)
(* The five tools (app.py:22-128).  d is what the tool's dependency does   *)
(* on this call: [kind, msg].                                              *)
(***************************************************************************)
NoDep == [kind |-> "none", msg |-> ""]

Outcome(k) == [kind |-> k, msg |-> ""]

Raises(m) == [kind |-> "raise", msg |-> m]

\* wikipedia.search / wikipedia.page
WikipediaDeps ==
    {Outcome("ok"), Outcome("empty"), Outcome("disamb_ok"), Outcome("disamb_fail"),
     Outcome("page_error"), Raises("timeout")}

\* DDGS().text; "'title'" is the KeyError of a result without a title in the formatting loop
DuckDuckGoDeps == {Outcome("ok"), Outcome("empty"), Raises("ratelimit"), Raises("'title'")}

\* requests.get, raise_for_status, ET.fromstring, entry.find
ArXivDeps == {Outcome("ok"), Outcome("empty"), Raises("timeout")}

\* requests.get, raise_for_status, response.json, data['result'][id]
PubMedDeps == {Outcome("ok"), Outcome("empty"), Raises("timeout")}

safe_wikipedia_search(query0, d) ==
    LET query == replace(strip(query0, {"\"", "'"}), "+", " ")
        summary == <<"summary[0:500]">>
    IN  CASE d.kind = "empty" -> Ret(<<"No Wikipedia articles found for '">> \o query \o <<"'">>)
          [] d.kind = "ok" -> Ret(summary)
          [] d.kind = "disamb_ok" -> Ret(summary)
          [] d.kind = "disamb_fail" ->
                Ret(<<"Multiple Wikipedia articles found for '">> \o query
                    \o <<"'. Please be more specific.">>)
          [] d.kind = "page_error" -> Ret(<<"No Wikipedia article found for '">> \o query \o <<"'">>)
          [] OTHER -> TryExcept(Exc(d.msg), "An error occurred while searching Wikipedia: ")

safe_duckduckgo_search(query0, d) ==
    LET query == replace(strip(query0, {"\"", "'"}), "+", " ")
        body == CASE d.kind = "raise" -> Exc(d.msg)
                  [] d.kind = "empty" -> Ret(<<"No results found on DuckDuckGo.">>)
                  [] OTHER -> Ret(<<"- title\n  body...\n  Source: link">>)
    IN  TryExcept(body, "An error occurred while searching DuckDuckGo: ")

\* the characters safe_math_eval lets through
allowed_chars ==
    {"0", "1", "2", "3", "4", "5", "6", "7", "8", "9", "+", "-", "*", "/", "(", ")", ".", " "}

\* eval(expression), on the expressions the completions below carry
eval(expression) ==
    CASE expression = <<"2", "+", "2">> -> Ret(<<"4">>)
      [] expression = <<"1", "/", "0">> -> Exc("division by zero")
      [] OTHER -> Exc("invalid syntax")

safe_math_eval(expression) ==
    LET body == IF \E i \in 1..Len(expression) : expression[i] \notin allowed_chars
                THEN Ret(<<"Invalid mathematical expression. Only basic operations are allowed.">>)
                ELSE eval(expression)
    IN  TryExcept(body, "Error evaluating mathematical expression: ")

\* search_arxiv without its try/except
search_arxiv_unguarded(query, d) ==
    IF query = <<>>
    THEN Ret(<<"No query provided.">>)
    ELSE CASE d.kind = "raise" -> Exc(d.msg)
           [] d.kind = "empty" -> Ret(<<"No results found on arXiv.">>)
           [] OTHER -> Ret(<<"Title: t\nLink: l\nSummary: s...\n">>)

search_arxiv(query, d) ==
    IF query = <<>>
    THEN Ret(<<"No query provided.">>)
    ELSE LET body == CASE d.kind = "raise" -> Exc(d.msg)
                       [] d.kind = "empty" -> Ret(<<"No results found on arXiv.">>)
                       [] OTHER -> Ret(<<"Title: t\nLink: l\nSummary: s...\n">>)
         IN  TryExcept(body, "Error searching ArXiv: ")

search_pubmed(query, d) ==
    IF query = <<>>
    THEN Ret(<<"No query provided.">>)
    ELSE LET body == CASE d.kind = "raise" -> Exc(d.msg)
                       [] d.kind = "empty" -> Ret(<<"No results found on PubMed.">>)
                       [] OTHER -> Ret(<<"Title: t\nPubMed ID: id\nAbstract: a...\n">>)
         IN  TryExcept(body, "Error searching PubMed: ")

\* the names of the Tool objects of the list `tools`
ToolNames == {"Wikipedia", "DuckDuckGo", "BasicMath", "ArXiv", "PubMed"}

\* what the dependency of the tool called `name` can do
Deps(name) ==
    CASE name = "Wikipedia" -> WikipediaDeps
      [] name = "DuckDuckGo" -> DuckDuckGoDeps
      [] name = "ArXiv" -> ArXivDeps
      [] name = "PubMed" -> PubMedDeps
      [] OTHER -> {NoDep}

\* Tool(name=..., func=...): the function a registered name runs
ToolFunc(name, input, d) ==
    CASE name = "Wikipedia" -> safe_wikipedia_search(input, d)
      [] name = "DuckDuckGo" -> safe_duckduckgo_search(input, d)
      [] name = "BasicMath" -> safe_math_eval(input)
      [] name = "ArXiv" -> search_arxiv(input, d)
      [] OTHER -> search_pubmed(input, d)

(***************************************************************************)
(* Model completions: the text the LLM returns, as labelled lines.  The    *)
(* agent stops generation at "\nObservation:", so no line has that label.  *)
(***************************************************************************)
Line(label, body) == [label |-> label, body |-> body]

Completions ==
    { <<Line("Action", <<"BasicMath">>), Line("Action Input", <<"2", "+", "2">>)>>,
      <<Line("Action", <<"BasicMath">>), Line("Action Input", <<"1", "/", "0">>)>>,
      <<Line("Action", <<"BasicMath">>), Line("Action Input", <<"t", "w", "o">>)>>,
      <<Line("Thought", <<"I now know the final answer">>), Line("Final Answer", <<" ", "4">>)>>,
      <<Line("Thought", <<"t">>), Line("Action", <<"ArXiv">>),
        Line("Action Input", <<" ", "\"", "q", "\"">>)>>,
      <<Line("Action", <<"ArXiv">>), Line("Action Input", <<>>)>>,
      <<Line("Action", <<"arxiv">>), Line("Action Input", <<"q">>)>>,
      <<Line("Action", <<"Calculator">>), Line("Action Input", <<"2", "+", "2">>)>>,
      <<Line("Thought", <<"xyzzy">>)>>,
      <<Line("Action", <<"ArXiv">>)>>,
      <<Line("Action", <<"ArXiv">>), Line("Action Input", <<"q">>), Line("Final Answer", <<"4">>)>>,
      <<Line("Final Answer", <<"4">>), Line("Action", <<"ArXiv">>), Line("Action Input", <<"q">>)>>,
      <<Line("Action", <<"Wikipedia">>), Line("Action Input", <<"'", "q", "+", "r", "'">>)>>,
      <<Line("Action", <<"DuckDuckGo">>), Line("Action Input", <<"q">>)>>,
      <<Line("Action", <<"PubMed">>), Line("Action Input", <<"q">>)>> }

\* what llama does on one call: a completion, or the call fails (Ollama unreachable)
LLMOutcomes ==
    {[kind |-> "text", text |-> c, msg |-> ""] : c \in Completions}
        \cup {[kind |-> "fail", text |-> <<>>, msg |-> "Ollama call failed"]}

(***************************************************************************)
(* The output parser of the zero-shot ReAct agent that initialize_agent    *)
(* builds (MRKLOutputParser.parse), on labelled lines.                     *)
(***************************************************************************)
Idx(text, label) == {i \in 1..Len(text) : text[i].label = label}

Min(S) == CHOOSE x \in S : \A y \in S : x <= y

Max(S) == CHOOSE x \in S : \A y \in S : x >= y

RECURSIVE Rendered(_, _, _)
\* the lines i..j of the text as they stand in it, after the line before them
Rendered(text, i, j) ==
    IF i > j THEN <<>>
    ELSE <<"\n", text[i].label, ":">> \o text[i].body \o Rendered(text, i + 1, j)

AgentFinish(output) == [kind |-> "finish", tool |-> <<>>, tool_input |-> <<>>, text |-> output]

AgentAction(tool, tool_input) ==
    [kind |-> "action", tool |-> tool, tool_input |-> tool_input, text |-> <<>>]

\* OutputParserException, with the observation the executor will append
OutputParserException(observation) ==
    [kind |-> "error", tool |-> <<>>, tool_input |-> <<>>, text |-> <<observation>>]

IsSelect(s) == Len(s) >= 7 /\ SubSeq(s, 1, 7) = <<"S", "E", "L", "E", "C", "T", " ">>

parse(text) ==
    LET finals == Idx(text, "Final Answer")
        actions == Idx(text, "Action")
        inputs == Idx(text, "Action Input")
        \* re.search: the leftmost "Action:" that an "Action Input:" follows
        starts == {i \in actions : \E j \in inputs : j > i}
        includes_answer == finals # {}
        action_match == starts # {}
        i0 == Min(starts)
        j0 == Min({j \in inputs : j > i0})
        action == strip(text[i0].body \o Rendered(text, i0 + 1, j0 - 1), Whitespace)
        action_input == strip(text[j0].body \o Rendered(text, j0 + 1, Len(text)), Whitespace)
        stripped == strip(action_input, {" "})
        tool_input == IF IsSelect(stripped) THEN stripped ELSE strip(stripped, {"\""})
        f0 == Min(finals)
        fN == Max(finals)
        after_first == text[f0].body \o Rendered(text, f0 + 1, Len(text))
    IN  CASE action_match /\ includes_answer ->
                IF f0 < i0
                \* no blank line follows: text[start_index:-1]
                THEN AgentFinish(strip(SubSeq(after_first, 1, Len(after_first) - 1), Whitespace))
                ELSE OutputParserException("Invalid or incomplete response")
          [] action_match /\ ~includes_answer -> AgentAction(action, tool_input)
          [] ~action_match /\ includes_answer ->
                AgentFinish(strip(text[fN].body \o Rendered(text, fN + 1, Len(text)), Whitespace))
          [] ~action_match /\ ~includes_answer /\ actions = {} ->
                OutputParserException("Invalid Format: Missing 'Action:' after 'Thought:")
          [] ~action_match /\ ~includes_answer /\ actions # {} /\ inputs = {} ->
                OutputParserException("Invalid Format: Missing 'Action Input:' after 'Action:'")
          [] OTHER -> OutputParserException("Invalid or incomplete response")

(***************************************************************************)
(* The agent of app.py:201-213, as the executor runs it.                   *)
(***************************************************************************)
\* the executor's default, had the keyword been left out
handle_parsing_errors_default == FALSE

\* handle_parsing_errors=True, a keyword the AgentExecutor receives
handle_parsing_errors == TRUE

\* "max_iterations": 3 of agent_kwargs: given to the agent's constructor, which drops it
agent_kwargs_max_iterations == 3

\* the iteration budget in effect: the executor's own default
max_iterations == 15

\* AgentExecutor._should_continue
should_continue(iterations) == iterations < max_iterations

\* Agent.return_stopped_response under the method in effect, "force": no Model call
return_stopped_response == <<"Agent stopped due to iteration limit or time limit.">>

\* a lookup that ignores the case of the name
registered_any_case(tool) ==
    Len(tool) = 1 /\ (tool[1] \in ToolNames \/ tool[1] \in {"arxiv", "pubmed", "wikipedia"})

\* the executor's lookup of the tool an action names: name_to_tool_map
registered(tool) == Len(tool) = 1 /\ tool[1] \in ToolNames

\* InvalidTool's observation
InvalidTool(tool) ==
    tool \o <<" is not a valid tool, try one of [Wikipedia, DuckDuckGo, BasicMath, ArXiv, PubMed].">>

(***************************************************************************)
(* One request: the handler's position, the locals of agent.run            *)
(* (iterations, the last step of intermediate_steps) and the response.     *)
(* status names how agent.run ended: Succeeded (an AgentFinish was         *)
(* parsed), Stopped (the budget ran out), Failed (an exception left it).   *)
(* request is the body received.  modelCalls, toolCalls, nInvalid,         *)
(* nParseErr and modelFailed count what happened; nothing reads them.      *)
(***************************************************************************)
NoAction == [tool |-> <<>>, tool_input |-> <<>>]

NoResponse == [code |-> 0, key |-> "", text |-> <<>>]

NoRequest == [json |-> FALSE, has |-> FALSE, query |-> <<>>]

InitRun ==
    [pc |-> "idle", request |-> NoRequest, status |-> "None", iterations |-> 0, lastObs |-> <<>>,
     pending |-> NoAction, answer |-> <<>>, response |-> NoResponse,
     modelCalls |-> 0, toolCalls |-> 0, nInvalid |-> 0, nParseErr |-> 0,
     modelFailed |-> FALSE]

\* jsonify({...}), code
jsonify(code, key, text) == [code |-> code, key |-> key, text |-> text]

\* a return that leaves the loop running
Return_and_continue(s, status, output) ==
    [s EXCEPT !.pc = "plan", !.status = status, !.answer = output,
              !.pending = NoAction, !.response = jsonify(200, "result", output)]

\* agent.run returns: return jsonify({'result': result})
Return(s, status, output) ==
    [s EXCEPT !.pc = "done", !.status = status, !.answer = output,
              !.pending = NoAction, !.response = jsonify(200, "result", output)]

\* an exception leaves agent.run: except Exception as e: return jsonify({'error': str(e)}), 500
Raise(s, msg) ==
    [s EXCEPT !.pc = "done", !.status = "Failed", !.pending = NoAction,
              !.response = jsonify(500, "error", msg)]

\* the end of one pass of the executor's loop: the step joins intermediate_steps,
\* iterations += 1, and the loop's condition is tested again
NextIteration(s, observation) ==
    LET t == [s EXCEPT !.lastObs = observation, !.iterations = s.iterations + 1,
                       !.pending = NoAction]
    IN  IF should_continue(t.iterations)
        THEN [t EXCEPT !.pc = "plan"]
        ELSE Return(t, "Stopped", return_stopped_response)

\* the requests /search receives: a body that is not JSON, no 'query' key, '' and a question
Requests ==
    {[json |-> FALSE, has |-> FALSE, query |-> <<>>],
     [json |-> TRUE, has |-> FALSE, query |-> <<>>],
     [json |-> TRUE, has |-> TRUE, query |-> <<>>],
     [json |-> TRUE, has |-> TRUE, query |-> <<"W", "h", "a", "t", " ", "i", "s", " ", "2", "+", "2", "?">>]}

\* a test that lets the empty string through
missing_only_none(req) == ~req.has

\* `if not user_input`
missing(req) == ~req.has \/ req.query = <<>>

\* search(), up to the call of agent.run
search_step(s0, req) ==
    LET s == [s0 EXCEPT !.request = req]
    IN  IF ~req.json
        THEN [s EXCEPT !.pc = "done",
                       !.response = jsonify(500, "error", <<"request body is not JSON">>)]
        ELSE IF missing(req)
             THEN [s EXCEPT !.pc = "done",
                            !.response = jsonify(400, "error", <<"No query provided">>)]
             ELSE [s EXCEPT !.pc = "plan", !.status = "Pending"]

\* what the executor does with an OutputParserException
on_parse_error(s, p) ==
    IF handle_parsing_errors
    THEN NextIteration([s EXCEPT !.nParseErr = s.nParseErr + 1], p.text)
    ELSE Raise(s, <<"Could not parse LLM output">>)

\* one Model call of the loop and what the executor does with the completion
plan_step(s, o) ==
    LET c == [s EXCEPT !.modelCalls = s.modelCalls + 1]
        p == parse(o.text)
    IN  IF o.kind = "fail"
        THEN Raise([c EXCEPT !.modelFailed = TRUE], <<o.msg>>)
        ELSE CASE p.kind = "finish" -> Return(c, "Succeeded", p.text)
               [] p.kind = "action" ->
                     [c EXCEPT !.pc = "act",
                               !.pending = [tool |-> p.tool, tool_input |-> p.tool_input]]
               [] OTHER -> on_parse_error(c, p)

\* the executor performs the pending action: the named tool's function, or InvalidTool
perform_step(s, d) ==
    IF registered(s.pending.tool)
    THEN LET r == ToolFunc(s.pending.tool[1], s.pending.tool_input, d)
         IN  IF r.kind = "str"
             THEN NextIteration([s EXCEPT !.toolCalls = s.toolCalls + 1], r.text)
             ELSE Raise([s EXCEPT !.toolCalls = s.toolCalls + 1], r.text)
    ELSE NextIteration([s EXCEPT !.nInvalid = s.nInvalid + 1], InvalidTool(s.pending.tool))

\* what the dependency of the pending action's tool can do
PendingDeps(s) == IF registered(s.pending.tool) THEN Deps(s.pending.tool[1]) ELSE {NoDep}

(***************************************************************************)
(* The requests in flight.  Each call of agent.run keeps its steps and its *)
(* counter in locals; agent, llama and tools are built once and not        *)
(* written afterwards.                                                     *)
(***************************************************************************)
Runs == {1, 2}

\* a counter kept on the shared agent object instead of in the call
SharedCounter(rs, r) ==
    [rs[r] EXCEPT !.iterations = Max({rs[q].iterations : q \in Runs})]

\* the state a request's handler reads and writes
Local(rs, r) == rs[r]

Init ==
    /\ runs = [r \in Runs |-> InitRun]
    /\ fed = [r \in Runs |-> <<>>]

Input(kind, val) == [kind |-> kind, val |-> val]

\* the record of what request r consumed, kept when log is set
Feed(r, in, log) ==
    IF log THEN fed' = [fed EXCEPT ![r] = Append(@, in)] ELSE UNCHANGED fed

search(r, log) ==
    /\ runs[r].pc = "idle"
    /\ log => Len(fed[r]) < MaxFed
    /\ \E req \in Requests :
          /\ runs' = [runs EXCEPT ![r] = search_step(Local(runs, r), req)]
          /\ Feed(r, Input("req", req), log)

agent_plan(r, log) ==
    /\ runs[r].pc = "plan"
    /\ log => Len(fed[r]) < MaxFed
    /\ \E o \in LLMOutcomes :
          /\ runs' = [runs EXCEPT ![r] = plan_step(Local(runs, r), o)]
          /\ Feed(r, Input("llm", o), log)

agent_perform(r, log) ==
    /\ runs[r].pc = "act"
    /\ log => Len(fed[r]) < MaxFed
    /\ \E d \in PendingDeps(runs[r]) :
          /\ runs' = [runs EXCEPT ![r] = perform_step(Local(runs, r), d)]
          /\ Feed(r, Input("dep", d), log)

\* one request
Next == search(1, FALSE) \/ agent_plan(1, FALSE) \/ agent_perform(1, FALSE)

Spec == Init /\ [][Next]_vars

\* simultaneous requests (the server handles each in its own thread), interleaved at
\* the Model and tool calls; each consumes at most MaxFed inputs
NextConc == \E r \in Runs : search(r, TRUE) \/ agent_plan(r, TRUE) \/ agent_perform(r, TRUE)

ConcSpec == Init /\ [][NextConc]_vars

\* what one request does with one input
Apply(s, in) ==
    CASE in.kind = "req" -> search_step(s, in.val)
      [] in.kind = "llm" -> plan_step(s, in.val)
      [] OTHER -> perform_step(s, in.val)

RECURSIVE RunAlone(_)
\* the state of a request that consumed the inputs h with no other request in flight
RunAlone(h) ==
    IF h = <<>> THEN InitRun ELSE Apply(RunAlone(SubSeq(h, 1, Len(h) - 1)), h[Len(h)])

(***************************************************************************)
(* Properties.                                                             *)
(***************************************************************************)
\* the tool names of the prompt, as the texts an action carries
Named(tool) == \E n \in {"Wikipedia", "DuckDuckGo", "BasicMath", "ArXiv", "PubMed"} : tool = <<n>>

\* the tool inputs the completions carry
ToolInputs == {parse(c).tool_input : c \in Completions}

\* C1: a run makes at most max_iterations + 1 Model calls, with max_iterations the 3
\* of agent_kwargs.
C1_ModelCallsWithinBudget ==
    \A r \in Runs : runs[r].modelCalls <= agent_kwargs_max_iterations + 1

\* C2: when max_iterations (3) completions and the forced one after them were all
\* unparseable, the run has ended Stopped with a 200 response carrying a text.
C2_StoppedAfterForcedCall ==
    \A r \in Runs :
        (/\ runs[r].modelCalls > agent_kwargs_max_iterations
         /\ runs[r].nParseErr >= agent_kwargs_max_iterations
         /\ runs[r].nParseErr = runs[r].iterations
         /\ runs[r].status \in {"Pending", "Stopped"}
         /\ runs[r].pc # "act")
        => (/\ runs[r].status = "Stopped"
            /\ runs[r].answer # <<>>
            /\ runs[r].response.code = 200)

\* C3, in a state: a Succeeded run is over and its response carries its answer.
C3_SucceededIsOver ==
    \A r \in Runs :
        runs[r].status = "Succeeded"
        => (/\ runs[r].pc = "done"
            /\ runs[r].pending = NoAction
            /\ runs[r].response = [code |-> 200, key |-> "result", text |-> runs[r].answer])

\* C3, in a step: a run becomes Succeeded by a Model call whose completion parses as a
\* final answer, with exactly that answer's text and no tool call; a Succeeded run
\* takes no further step.
C3_FinalAnswerStep ==
    \A r \in Runs :
        /\ (runs[r].status # "Succeeded" /\ runs'[r].status = "Succeeded")
           => (/\ runs[r].pc = "plan"
               /\ runs'[r].modelCalls = runs[r].modelCalls + 1
               /\ runs'[r].toolCalls = runs[r].toolCalls
               /\ runs'[r].iterations = runs[r].iterations
               /\ \E o \in LLMOutcomes :
                     /\ o.kind = "text"
                     /\ parse(o.text).kind = "finish"
                     /\ runs'[r].answer = parse(o.text).text)
        /\ runs[r].status = "Succeeded" => runs'[r] = runs[r]

\* C3: once a completion parses as a FinalAnswer the run is Succeeded and returns exactly
\* that answer's text; after that no tool is invoked and no Model call is made.
C3_FinalAnswerEndsRun == []C3_SucceededIsOver /\ [][C3_FinalAnswerStep]_vars

C3_Witness ==
    /\ runs[1].status = "Succeeded"
    /\ runs[1].answer = <<"4">>
    /\ runs[1].toolCalls >= 1
    /\ runs[1].modelCalls >= 2

\* C4, the functions: whatever its dependency does, each tool returns a string.
C4_ToolsReturnStrings ==
    \A n \in ToolNames : \A input \in ToolInputs : \A d \in Deps(n) :
        ToolFunc(n, input, d).kind = "str"

\* C4, in a step: performing an action never makes the run fail.
C4_PerformStep ==
    \A r \in Runs :
        runs[r].pc = "act"
        => (/\ runs'[r].status # "Failed"
            /\ runs'[r].iterations = runs[r].iterations + 1
            /\ runs'[r].response.code # 500)

\* C4: for each of the five tools and every input, a failing dependency yields a string
\* result and no exception crosses into the loop.
C4_NoExceptionCrossesTools == []C4_ToolsReturnStrings /\ [][C4_PerformStep]_vars

C4_Witness ==
    /\ runs[1].toolCalls >= 2
    /\ runs[1].pc = "plan"
    /\ \/ StartsWith(runs[1].lastObs, "Error searching PubMed: ")
       \/ StartsWith(runs[1].lastObs, "An error occurred while searching DuckDuckGo: ")

C5_PerformUnregistered ==
    \A r \in Runs :
        /\ (runs[r].pc = "act" /\ ~Named(runs[r].pending.tool))
           => (/\ runs'[r].toolCalls = runs[r].toolCalls
               /\ runs'[r].nInvalid = runs[r].nInvalid + 1
               /\ runs'[r].iterations = runs[r].iterations + 1
               /\ runs'[r].status # "Failed"
               /\ Len(runs'[r].lastObs) >= 1
               /\ runs'[r].lastObs[Len(runs'[r].lastObs)]
                    = " is not a valid tool, try one of [Wikipedia, DuckDuckGo, BasicMath, ArXiv, PubMed].")
        /\ runs'[r].toolCalls # runs[r].toolCalls
           => (runs[r].pc = "act" /\ Named(runs[r].pending.tool))

C6_FailedIffModelFailed ==
    \A r \in Runs :
        /\ runs[r].status = "Failed" <=> runs[r].modelFailed
        /\ runs[r].response.code = 500 /\ runs[r].status # "None" => runs[r].modelFailed

C6_Witness ==
    /\ runs[1].status = "Failed"
    /\ runs[1].nParseErr >= 2
    /\ runs[1].toolCalls >= 2
    /\ StartsWith(runs[1].lastObs, "Error evaluating mathematical expression: ")

\* C7, the function: on a non-empty input and a failing fetch the text starts with
\* "Error searching ArXiv:".
C7_ArXivErrorText ==
    \A input \in ToolInputs \ {<<>>} : \A d \in {x \in ArXivDeps : x.kind = "raise"} :
        StartsWith(search_arxiv(input, d).text, "Error searching ArXiv: ")

\* C7, in a step: the step that appends that observation leaves the run at its next
\* Model call.
C7_ArXivErrorStep ==
    \A r \in Runs :
        (/\ runs[r].pc = "act"
         /\ runs[r].pending.tool = <<"ArXiv">>
         /\ runs[r].pending.tool_input # <<>>
         /\ runs'[r].toolCalls = runs[r].toolCalls + 1
         /\ StartsWith(runs'[r].lastObs, "Error searching ArXiv: "))
        => (runs'[r].pc = "plan" /\ runs'[r].status = "Pending")

\* C7: when ArXiv's fetch fails on a non-empty input, the observation starts with
\* "Error searching ArXiv:" and the run continues with another Model call that sees it.
C7_ArXivErrorContinues == []C7_ArXivErrorText /\ [][C7_ArXivErrorStep]_vars

\* C8: 200 with the produced text when the run ends Succeeded or Stopped; an error
\* response when it ends Failed or the query is missing or empty, and then no Model or
\* tool call was made.
C8_ResponseMapping ==
    \A r \in Runs :
        /\ (runs[r].pc = "done" /\ runs[r].status \in {"Succeeded", "Stopped"})
           => runs[r].response = [code |-> 200, key |-> "result", text |-> runs[r].answer]
        /\ (runs[r].pc = "done" /\ runs[r].status = "Failed")
           => (/\ runs[r].response.code = 500
               /\ runs[r].response.key = "error"
               /\ runs[r].response.text # <<>>)
        /\ (runs[r].pc # "idle" /\ runs[r].request.json
              /\ (~runs[r].request.has \/ runs[r].request.query = <<>>))
           => (/\ runs[r].pc = "done"
               /\ runs[r].response = [code |-> 400, key |-> "error", text |-> <<"No query provided">>]
               /\ runs[r].status = "None"
               /\ runs[r].modelCalls = 0
               /\ runs[r].toolCalls = 0)
        /\ runs[r].pc \in {"plan", "act"} => runs[r].response.code = 0

C8_Witness ==
    /\ runs[1].pc = "done"
    /\ runs[1].request.has
    /\ runs[1].request.query = <<>>
    /\ runs[1].response.code = 400

C10_CounterWithinBudget ==
    \A r \in Runs :
        /\ runs[r].iterations = runs[r].toolCalls + runs[r].nInvalid + runs[r].nParseErr
        /\ runs[r].iterations <= agent_kwargs_max_iterations

====
